---------------------------- MODULE Spec2Model ----------------------------
(***************************************************************************)
(* A model of pydantic/fields.py: the construction of a Field descriptor   *)
(* from a declared type (prepare, _populate_sub_fields,                    *)
(* _populate_validators) and Field.validate with its shape dispatch.       *)
(*                                                                         *)
(* A descriptor is a record; the recursive constructor and the recursive   *)
(* validation are RECURSIVE operators that follow the methods of the       *)
(* class statement by statement.  Every validation operator threads a log  *)
(* of the steps it executed and a flag for an exception that is not        *)
(* caught, so that the order of the steps and the propagation of           *)
(* exceptions are part of the result.                                      *)
(***************************************************************************)
EXTENDS Integers, Sequences, FiniteSets, TLC

(***************************************************************************)
(* Bounds of the model.                                                    *)
(***************************************************************************)
\* the longest list and the largest mapping among the inputs
MaxLen == 2

(***************************************************************************)
(* Python values.  One record shape for every value: t is the Python type, *)
(* n the number of an int, s the text of a str, items the elements of a    *)
(* container (a dict holds "pair" values, in insertion order).             *)
(***************************************************************************)
VNone == [t |-> "NoneType", n |-> 0, s |-> "", items |-> <<>>]
VInt(i) == [t |-> "int", n |-> i, s |-> "", items |-> <<>>]
VStr(x) == [t |-> "str", n |-> 0, s |-> x, items |-> <<>>]
VList(xs) == [t |-> "list", n |-> 0, s |-> "", items |-> xs]
VTuple(xs) == [t |-> "tuple", n |-> 0, s |-> "", items |-> xs]
VPair(k, x) == [t |-> "pair", n |-> 0, s |-> "", items |-> <<k, x>>]
VDict(ps) == [t |-> "dict", n |-> 0, s |-> "", items |-> ps]

RECURSIVE Dedup(_)
\* the elements of a sequence, each kept once
Dedup(xs) ==
    IF xs = <<>> THEN <<>>
    ELSE LET front == Dedup(SubSeq(xs, 1, Len(xs) - 1))
             last == xs[Len(xs)]
         IN IF \E i \in 1..Len(front) : front[i] = last
            THEN front ELSE Append(front, last)

\* set(v) of a list: the distinct elements
VSet(xs) == [t |-> "set", n |-> 0, s |-> "", items |-> Dedup(xs)]

\* len(v), defined for the sized types
HasLen(v) == v.t \in {"str", "list", "tuple", "set", "dict"}
PyLen(v) == IF v.t = "str" THEN Len(v.s) ELSE Len(v.items)

\* hash(v) succeeds
Hashable(v) == v.t \in {"NoneType", "int", "str", "tuple"}

DigitStr == <<"0", "1", "2", "3", "4", "5", "6", "7", "8", "9">>

RECURSIVE IntToStr(_)
\* str(n) of a non-negative int
IntToStr(i) ==
    IF i < 10 THEN DigitStr[i + 1]
    ELSE IntToStr(i \div 10) \o DigitStr[(i % 10) + 1]

\* int(s) of a str succeeds; the inputs of the model hold one-digit texts only
IsIntText(x) == \E d \in 1..Len(DigitStr) : DigitStr[d] = x
IntOfText(x) == (CHOOSE d \in 1..Len(DigitStr) : DigitStr[d] = x) - 1

(***************************************************************************)
(* The outcome of calling a validator: it returns a value or raises.       *)
(***************************************************************************)
Returns(v) == [exc |-> "", v |-> v]
Raises(e) == [exc |-> e, v |-> VNone]

\* validators.py, the built-in validators
not_none_validator(v) ==
    IF v = VNone THEN Raises("TypeError") ELSE Returns(v)

int_validator(v) ==
    IF v.t = "int" THEN Returns(v)
    ELSE IF v.t = "str"
         THEN (IF IsIntText(v.s) THEN Returns(VInt(IntOfText(v.s)))
               ELSE Raises("ValueError"))
         ELSE Raises("TypeError")

str_validator(v) ==
    IF v.t \in {"str", "NoneType"} THEN Returns(v)
    ELSE IF v.t = "int" THEN Returns(VStr(IntToStr(v.n)))
         ELSE Raises("TypeError")

(***************************************************************************)
(* The validators a model class registers are its own code.  Three of      *)
(* them stand for it:                                                      *)
(*   inc       return v + 1                                                *)
(*   nonempty  if len(v) == 0: raise ValueError; return v                  *)
(*   lookup    return TABLE[v], TABLE = {1: 1, 'a': 'a'}                   *)
(* inc transforms, nonempty rejects by value, and lookup raises KeyError,  *)
(* which is neither a ValueError nor a TypeError.                          *)
(***************************************************************************)
UserFuncs == {"inc", "nonempty", "lookup"}

inc(v) == IF v.t = "int" THEN Returns(VInt(v.n + 1)) ELSE Raises("TypeError")

nonempty(v) ==
    IF ~HasLen(v) THEN Raises("TypeError")
    ELSE IF PyLen(v) = 0 THEN Raises("ValueError") ELSE Returns(v)

lookup(v) ==
    IF ~Hashable(v) THEN Raises("TypeError")
    ELSE IF v \in {VInt(1), VStr("a")} THEN Returns(v) ELSE Raises("KeyError")

\* validator(v): the call of a pipeline step
Call(f, v) ==
    CASE f = "not_none_validator" -> not_none_validator(v)
      [] f = "int_validator" -> int_validator(v)
      [] f = "str_validator" -> str_validator(v)
      [] f = "inc" -> inc(v)
      [] f = "nonempty" -> nonempty(v)
      [] f = "lookup" -> lookup(v)

\* utils.list_like
list_like(v) == v.t \in {"list", "tuple", "set"}

\* validators.dict_validator: the dict itself, DictError otherwise
dict_validator(v) == IF v.t = "dict" THEN Returns(v) ELSE Raises("TypeError")

\* types.Json.validate: json.loads of the payload
JsonTexts == {"[1]", "[1, \"a\"]", "1", "null"}
JsonLoads(x) ==
    CASE x = "[1]" -> VList(<<VInt(1)>>)
      [] x = "[1, \"a\"]" -> VList(<<VInt(1), VStr("a")>>)
      [] x = "1" -> VInt(1)
      [] x = "null" -> VNone
Json_validate(v) ==
    IF v.t # "str" THEN Raises("TypeError")
    ELSE IF v.s \in JsonTexts THEN Returns(JsonLoads(v.s)) ELSE Raises("ValueError")

(***************************************************************************)
(* Declared types: k is the class or the typing origin, args its           *)
(* parameters (__args__).                                                  *)
(***************************************************************************)
TInt == [k |-> "int", args |-> <<>>]
TStr == [k |-> "str", args |-> <<>>]
NoneType == [k |-> "NoneType", args |-> <<>>]
TList(a) == [k |-> "List", args |-> <<a>>]
TSet(a) == [k |-> "Set", args |-> <<a>>]
TDict(a, b) == [k |-> "Mapping", args |-> <<a, b>>]
TTuple(as) == [k |-> "Tuple", args |-> as]
TUnion(as) == [k |-> "Union", args |-> as]
TOptional(a) == TUnion(<<a, NoneType>>)
TJson(a) == [k |-> "JsonWrapper", args |-> <<a>>]

\* getattr(type_, '__origin__', None)
origin(type_) ==
    IF type_.k \in {"Union", "Tuple", "List", "Set", "Mapping"} THEN type_.k ELSE "None"

\* validators.find_validators: the built-in chain of a base type
find_validators(type_) ==
    CASE type_.k = "int" -> <<"int_validator">>
      [] type_.k = "str" -> <<"not_none_validator", "str_validator">>
      [] OTHER -> <<>>

(***************************************************************************)
(* The descriptor: class Field.  sub_fields and key_field hold the owned   *)
(* descriptors (<<>> for None); the validator tuples hold the functions in *)
(* the order they run (the calling convention of each, which               *)
(* _get_validator_signature adds, does not change what a step receives or  *)
(* returns and is left out).                                               *)
(***************************************************************************)
\* class Validator(NamedTuple)
Validator(func, pre, whole, always) ==
    [func |-> func, pre |-> pre, whole |-> whole, always |-> always]

RECURSIVE Field(_, _, _, _, _)

\* _create_sub_type, were the sub-field built with the constructor's allow_none
_create_sub_type_not_nullable(self, type_) ==
    Field(type_, self.class_validators, self.default, self.required, FALSE)

\* Field._create_sub_type
_create_sub_type(self, type_) ==
    Field(type_, self.class_validators, self.default, self.required, self.allow_none)

\* the Union branch of Field._populate_sub_fields
_populate_union(self) ==
    LET args == self.type_.args
        types_ == SelectSeq(args, LAMBDA a : a # NoneType)
        s1 == IF \E i \in 1..Len(args) : args[i] = NoneType
              THEN [self EXCEPT !.allow_none = TRUE, !.required = FALSE]
              ELSE self
    IN [s1 EXCEPT !.sub_fields =
            [i \in 1..Len(types_) |-> _create_sub_type(s1, types_[i])]]

\* Field._populate_sub_fields
_populate_sub_fields(self) ==
    LET s1 == IF self.type_.k = "JsonWrapper"
              THEN [self EXCEPT !.type_ = self.type_.args[1], !.parse_json = TRUE]
              ELSE self
        args == s1.type_.args
    IN IF origin(s1.type_) = "None" THEN s1
       ELSE IF origin(s1.type_) = "Union" THEN _populate_union(s1)
       ELSE IF origin(s1.type_) = "Tuple"
       THEN LET s2 == [s1 EXCEPT !.shape = "TUPLE"]
            IN [s2 EXCEPT !.sub_fields =
                    [i \in 1..Len(args) |-> _create_sub_type(s2, args[i])]]
       ELSE LET s3 == IF origin(s1.type_) = "List"
                      THEN [s1 EXCEPT !.type_ = args[1], !.shape = "LIST"]
                      ELSE IF origin(s1.type_) = "Set"
                      THEN [s1 EXCEPT !.type_ = args[1], !.shape = "SET"]
                      ELSE [s1 EXCEPT !.key_field = <<_create_sub_type(s1, args[1])>>,
                                      !.type_ = args[2],
                                      !.shape = "MAPPING"]
            IN IF origin(s3.type_) # "None"
               THEN [s3 EXCEPT !.sub_fields = <<_create_sub_type(s3, s3.type_)>>]
               ELSE s3

\* Field._prep_vals
_prep_vals(self, v_funcs) ==
    SelectSeq(v_funcs, LAMBDA f : ~(self.allow_none /\ f = "not_none_validator"))

\* the functions of the class validators with the given whole and pre marks
funcs_of(class_validators, whole, pre) ==
    LET sel == SelectSeq(class_validators, LAMBDA c : c.whole = whole /\ c.pre = pre)
    IN [i \in 1..Len(sel) |-> sel[i].func]

\* v_funcs_of, were the built-in chain put before the pre-validators
v_funcs_of_builtin_first(self) ==
    find_validators(self.type_)
        \o funcs_of(self.class_validators, FALSE, TRUE)
        \o funcs_of(self.class_validators, FALSE, FALSE)

\* v_funcs of Field._populate_validators: the element pipeline in its order
v_funcs_of(self) ==
    funcs_of(self.class_validators, FALSE, TRUE)
        \o find_validators(self.type_)
        \o funcs_of(self.class_validators, FALSE, FALSE)

\* Field._populate_validators
_populate_validators(self) ==
    LET s1 == IF self.sub_fields = <<>>
              THEN [self EXCEPT !.validators = _prep_vals(self, v_funcs_of(self))]
              ELSE self
    IN IF s1.class_validators # <<>>
       THEN [s1 EXCEPT
               !.whole_pre_validators =
                   _prep_vals(s1, funcs_of(s1.class_validators, TRUE, TRUE)),
               !.whole_post_validators =
                   _prep_vals(s1, funcs_of(s1.class_validators, TRUE, FALSE))]
       ELSE s1

\* Field.prepare
prepare(self) ==
    LET s1 == [self EXCEPT !.validate_always =
                   \E i \in 1..Len(self.class_validators) : self.class_validators[i].always]
        s2 == IF ~s1.required /\ ~s1.validate_always /\ s1.default = VNone
              THEN [s1 EXCEPT !.allow_none = TRUE]
              ELSE s1
    IN _populate_validators(_populate_sub_fields(s2))

\* Field.__init__
Field(type_, class_validators, default, required, allow_none) ==
    prepare([type_ |-> type_,
             class_validators |-> class_validators,
             validate_always |-> FALSE,
             sub_fields |-> <<>>,
             key_field |-> <<>>,
             validators |-> <<>>,
             whole_pre_validators |-> <<>>,
             whole_post_validators |-> <<>>,
             default |-> default,
             required |-> required,
             allow_none |-> allow_none,
             parse_json |-> FALSE,
             shape |-> "SINGLETON"])

(***************************************************************************)
(* Errors.  An exception is its class, the lengths a TupleLengthError      *)
(* carries, and its identity: id is the position in the log of the step    *)
(* that raised it (0 for an exception the field itself creates).  The      *)
(* errors of a call are None, one ErrorWrapper or a list of errors.        *)
(***************************************************************************)
Exc(cls, id) == [cls |-> cls, actual_length |-> -1, expected_length |-> -1, id |-> id]
TupleLengthError(actual_length, expected_length) ==
    [cls |-> "TupleLengthError", actual_length |-> actual_length,
     expected_length |-> expected_length, id |-> 0]
NoExc == Exc("", 0)

None == [w |-> "None", exc |-> NoExc, loc |-> <<>>, sub |-> <<>>]
ErrorWrapper(exc, loc) == [w |-> "ErrorWrapper", exc |-> exc, loc |-> loc, sub |-> <<>>]
ErrorList(es) == [w |-> "list", exc |-> NoExc, loc |-> <<>>, sub |-> es]

\* bool(errors): an ErrorWrapper, or a list that is not empty
Truthy(e) == e.w = "ErrorWrapper" \/ (e.w = "list" /\ e.sub # <<>>)

(***************************************************************************)
(* What a call produces: the pair (v, errors) it returns, or raised, the   *)
(* class of the exception that leaves it, and the log so far.  A log entry *)
(* is the entry of Field.validate of the descriptor at path, its return,   *)
(* the arrival of a value at the shape dispatch, a JSON decode, or the     *)
(* call of a validator f of the list kind with argument v; exc is what the *)
(* step raised.  path names a descriptor in the tree: the indices of the   *)
(* sub_fields from the root, 0 for the key_field.                          *)
(***************************************************************************)
Result(v, errors, log) == [v |-> v, errors |-> errors, log |-> log, raised |-> ""]
Raised(exc, log) == [v |-> VNone, errors |-> None, log |-> log, raised |-> exc]

Event(ev, path, kind, f, v, loc, exc) ==
    [ev |-> ev, path |-> path, kind |-> kind, f |-> f, v |-> v, loc |-> loc, exc |-> exc]

\* Caught, were the clause except Exception
Caught_any(exc) == exc # ""

\* except (ValueError, TypeError)
Caught(exc) == exc \in {"ValueError", "TypeError"}

RECURSIVE apply_from(_, _, _, _, _, _, _)
\* the loop of Field._apply_validators from step i on
apply_from(validators, kind, i, v, loc, path, log) ==
    IF i > Len(validators) THEN Result(v, None, log)
    ELSE LET called(r, log1) ==
                 IF r.exc = "" THEN apply_from(validators, kind, i + 1, r.v, loc, path, log1)
                 ELSE IF Caught(r.exc)
                      THEN Result(v, ErrorWrapper(Exc(r.exc, Len(log1)), loc), log1)
                      ELSE Raised(r.exc, log1)
             step(r) ==
                 called(r, Append(log, Event("call", path, kind, validators[i], v, loc, r.exc)))
         IN step(Call(validators[i], v))

\* Field._apply_validators
_apply_validators(v, loc, path, log, validators, kind) ==
    apply_from(validators, kind, 1, v, loc, path, log)

\* Field._validate_json
_validate_json(v, loc, path, log) ==
    LET r == Json_validate(v)
        log1 == Append(log, Event("json", path, "", "", v, loc, r.exc))
    IN IF r.exc = "" THEN Result(r.v, None, log1)
       ELSE Result(v, ErrorWrapper(Exc(r.exc, Len(log1)), loc), log1)

RECURSIVE validate(_, _, _, _, _)
RECURSIVE _validate_singleton(_, _, _, _, _)
RECURSIVE singleton_loop(_, _, _, _, _, _, _)
RECURSIVE list_set_loop(_, _, _, _, _, _, _, _)
RECURSIVE tuple_loop(_, _, _, _, _, _, _, _)
RECURSIVE mapping_loop(_, _, _, _, _, _, _, _)

\* singleton_loop, were a later alternative that succeeds preferred
singleton_loop_last_wins(self, v, loc, path, i, errors, log) ==
    IF i > Len(self.sub_fields) THEN Result(v, ErrorList(errors), log)
    ELSE LET later(r, rest) ==
                 IF rest.raised = "" /\ ~Truthy(rest.errors) THEN rest
                 ELSE Result(r.v, None, rest.log)
             tried(r) ==
                 IF r.raised # "" THEN r
                 ELSE IF Truthy(r.errors)
                      THEN singleton_loop(self, v, loc, path, i + 1,
                                          Append(errors, r.errors), r.log)
                      ELSE later(r, singleton_loop(self, v, loc, path, i + 1, errors, r.log))
         IN tried(validate(self.sub_fields[i], v, loc, Append(path, i), log))

\* the loop of Field._validate_singleton over the alternatives, from the i-th
singleton_loop(self, v, loc, path, i, errors, log) ==
    IF i > Len(self.sub_fields) THEN Result(v, ErrorList(errors), log)
    ELSE LET tried(r) ==
                 IF r.raised # "" THEN r
                 ELSE IF Truthy(r.errors)
                      THEN singleton_loop(self, v, loc, path, i + 1,
                                          Append(errors, r.errors), r.log)
                      ELSE Result(r.v, None, r.log)
         IN tried(validate(self.sub_fields[i], v, loc, Append(path, i), log))

\* Field._validate_singleton
_validate_singleton(self, v, loc, path, log) ==
    IF self.sub_fields # <<>>
    THEN singleton_loop(self, v, loc, path, 1, <<>>, log)
    ELSE _apply_validators(v, loc, path, log, self.validators, "validators")

\* the return of Field._validate_list_set after its loop
list_set_return(v, result, errors, log) ==
    IF errors # <<>> THEN Result(v, ErrorList(errors), log)
    ELSE Result(VList(result), None, log)

\* list_set_loop, were it to leave the loop at the first element in error
list_set_loop_break(self, v, loc, path, i, result, errors, log) ==
    IF i > Len(v.items) \/ errors # <<>> THEN list_set_return(v, result, errors, log)
    ELSE LET validated(r) ==
                 IF r.raised # "" THEN r
                 ELSE IF Truthy(r.errors)
                      THEN list_set_loop(self, v, loc, path, i + 1, result,
                                         Append(errors, r.errors), r.log)
                      ELSE list_set_loop(self, v, loc, path, i + 1, Append(result, r.v),
                                         errors, r.log)
         IN validated(_validate_singleton(self, v.items[i], Append(loc, VInt(i - 1)),
                                          path, log))

\* the loop of Field._validate_list_set from the element of index i - 1 on
list_set_loop(self, v, loc, path, i, result, errors, log) ==
    IF i > Len(v.items) THEN list_set_return(v, result, errors, log)
    ELSE LET validated(r) ==
                 IF r.raised # "" THEN r
                 ELSE IF Truthy(r.errors)
                      THEN list_set_loop(self, v, loc, path, i + 1, result,
                                         Append(errors, r.errors), r.log)
                      ELSE list_set_loop(self, v, loc, path, i + 1, Append(result, r.v),
                                         errors, r.log)
         IN validated(_validate_singleton(self, v.items[i], Append(loc, VInt(i - 1)),
                                          path, log))

\* Field._validate_list_set
_validate_list_set(self, v, loc, path, log) ==
    IF ~list_like(v)
    THEN Result(v, ErrorWrapper(Exc(IF self.shape = "LIST" THEN "ListError" ELSE "SetError", 0),
                                loc), log)
    ELSE list_set_loop(self, v, loc, path, 1, <<>>, <<>>, log)

\* tuple_error, were only an input that is too short refused
tuple_error_short_only(self, v) ==
    IF ~list_like(v) THEN Exc("TupleError", 0)
    ELSE IF Len(v.items) < Len(self.sub_fields)
         THEN TupleLengthError(Len(v.items), Len(self.sub_fields))
         ELSE NoExc

\* the check of Field._validate_tuple before its loop: the exception, if any
tuple_error(self, v) ==
    IF ~list_like(v) THEN Exc("TupleError", 0)
    ELSE IF Len(v.items) # Len(self.sub_fields)
         THEN TupleLengthError(Len(v.items), Len(self.sub_fields))
         ELSE NoExc

\* the loop of Field._validate_tuple over zip(v, self.sub_fields)
tuple_loop(self, v, loc, path, i, result, errors, log) ==
    IF i > Len(v.items) \/ i > Len(self.sub_fields)
    THEN IF errors # <<>> THEN Result(v, ErrorList(errors), log)
         ELSE Result(VTuple(result), None, log)
    ELSE LET validated(r) ==
                 IF r.raised # "" THEN r
                 ELSE IF Truthy(r.errors)
                      THEN tuple_loop(self, v, loc, path, i + 1, result,
                                      Append(errors, r.errors), r.log)
                      ELSE tuple_loop(self, v, loc, path, i + 1, Append(result, r.v),
                                      errors, r.log)
         IN validated(validate(self.sub_fields[i], v.items[i], Append(loc, VInt(i - 1)),
                               Append(path, i), log))

\* Field._validate_tuple
_validate_tuple(self, v, loc, path, log) ==
    IF tuple_error(self, v) # NoExc
    THEN Result(v, ErrorWrapper(tuple_error(self, v), loc), log)
    ELSE tuple_loop(self, v, loc, path, 1, <<>>, <<>>, log)

\* result[key_result] = value_result on a dict in insertion order
DictSet(result, k, x) ==
    IF \E j \in 1..Len(result) : result[j].items[1] = k
    THEN [j \in 1..Len(result) |->
              IF result[j].items[1] = k THEN VPair(k, x) ELSE result[j]]
    ELSE Append(result, VPair(k, x))

\* mapping_return, were the dict of the validated entries returned with the errors
mapping_return_partial(v, result, errors, log) ==
    IF errors # <<>> THEN Result(VDict(result), ErrorList(errors), log)
    ELSE Result(VDict(result), None, log)

\* the return of Field._validate_mapping after its loop
mapping_return(v, result, errors, log) ==
    IF errors # <<>> THEN Result(v, ErrorList(errors), log)
    ELSE Result(VDict(result), None, log)

\* the loop of Field._validate_mapping over v_iter.items(), from the i-th entry
mapping_loop(self, v, loc, path, i, result, errors, log) ==
    IF i > Len(v.items) THEN mapping_return(v, result, errors, log)
    ELSE LET k == v.items[i].items[1]
             v_ == v.items[i].items[2]
             value_validated(kr, vr) ==
                 IF vr.raised # "" THEN vr
                 ELSE IF Truthy(vr.errors)
                      THEN mapping_loop(self, v, loc, path, i + 1, result,
                                        Append(errors, vr.errors), vr.log)
                      ELSE mapping_loop(self, v, loc, path, i + 1,
                                        DictSet(result, kr.v, vr.v), errors, vr.log)
             key_validated(kr) ==
                 IF kr.raised # "" THEN kr
                 ELSE IF Truthy(kr.errors)
                      THEN mapping_loop(self, v, loc, path, i + 1, result,
                                        Append(errors, kr.errors), kr.log)
                      ELSE value_validated(kr, _validate_singleton(self, v_, Append(loc, k),
                                                                   path, kr.log))
         IN key_validated(validate(self.key_field[1], k, Append(loc, VStr("__key__")),
                                   Append(path, 0), log))

\* Field._validate_mapping
_validate_mapping(self, v, loc, path, log) ==
    IF dict_validator(v).exc # ""
    THEN Result(v, ErrorWrapper(Exc(dict_validator(v).exc, 0), loc), log)
    ELSE mapping_loop(self, v, loc, path, 1, <<>>, <<>>, log)

\* the shape dispatch of Field.validate
dispatch(self, v, loc, path, log) ==
    LET log1 == Append(log, Event("dispatch", path, self.shape, "", v, loc, ""))
    IN IF self.shape = "SINGLETON" THEN _validate_singleton(self, v, loc, path, log1)
       ELSE IF self.shape = "MAPPING" THEN _validate_mapping(self, v, loc, path, log1)
       ELSE IF self.shape = "TUPLE" THEN _validate_tuple(self, v, loc, path, log1)
       ELSE LET converted(r) ==
                    IF r.raised = "" /\ ~Truthy(r.errors) /\ self.shape = "SET"
                    THEN Result(VSet(r.v.items), None, r.log)
                    ELSE r
            IN converted(_validate_list_set(self, v, loc, path, log1))

\* accepts_none, were the test made for a singleton only
accepts_none_singleton_only(self, v) ==
    self.allow_none /\ self.shape = "SINGLETON" /\ v = VNone

\* the guard of the first statement of Field.validate
accepts_none(self, v) == self.allow_none /\ v = VNone

\* runs_whole_post, were the errors of the dispatch not looked at
runs_whole_post_despite_errors(self, errors) == self.whole_post_validators # <<>>

\* the guard of the last step of Field.validate
runs_whole_post(self, errors) == ~Truthy(errors) /\ self.whole_post_validators # <<>>

\* the steps of Field.validate after the whole-pre validators
validate_shape(self, v, loc, path, log) ==
    LET dispatched(d) ==
            IF d.raised # "" THEN d
            ELSE IF runs_whole_post(self, d.errors)
                 THEN _apply_validators(d.v, loc, path, d.log, self.whole_post_validators,
                                        "whole_post")
                 ELSE d
    IN dispatched(dispatch(self, v, loc, path, log))

\* the steps of Field.validate after the JSON decode
validate_whole(self, v, loc, path, log) ==
    IF self.whole_pre_validators # <<>>
    THEN LET applied(p) ==
                 IF p.raised # "" \/ Truthy(p.errors) THEN p
                 ELSE validate_shape(self, p.v, loc, path, p.log)
         IN applied(_apply_validators(v, loc, path, log, self.whole_pre_validators,
                                      "whole_pre"))
    ELSE validate_shape(self, v, loc, path, log)

\* the body of Field.validate
validate_body(self, v, loc, path, log) ==
    IF accepts_none(self, v) THEN Result(VNone, None, log)
    ELSE IF self.parse_json
         THEN LET decoded(j) ==
                      IF Truthy(j.errors) THEN j
                      ELSE validate_whole(self, j.v, loc, path, j.log)
              IN decoded(_validate_json(v, loc, path, log))
         ELSE validate_whole(self, v, loc, path, log)

\* Field.validate: the log holds its entry and, unless an exception leaves it,
\* its return (exc tells whether it returned errors)
validate(self, v, loc, path, log) ==
    LET returned(r) ==
            IF r.raised # "" THEN r
            ELSE [r EXCEPT !.log =
                     Append(r.log, Event("return", path, "", "", r.v, loc,
                                         IF Truthy(r.errors) THEN "errors" ELSE ""))]
    IN returned(validate_body(self, v, loc, path,
                              Append(log, Event("validate", path, "", "", v, loc, ""))))

(***************************************************************************)
(* The declarations and the inputs of the model.                           *)
(***************************************************************************)
\* the declared types of the fields
DeclaredTypes ==
    {TInt, TStr, TOptional(TInt),
     TUnion(<<TInt, TStr>>), TUnion(<<TStr, TInt>>), TUnion(<<TInt, TStr, NoneType>>),
     TUnion(<<TList(TInt), TInt>>),
     TList(TInt), TSet(TInt), TList(TStr), TOptional(TList(TInt)), TList(TOptional(TInt)),
     TList(TUnion(<<TInt, TStr>>)), TList(TList(TInt)), TList(TTuple(<<TInt, TStr>>)),
     TTuple(<<TInt, TStr>>), TTuple(<<TInt>>), TOptional(TTuple(<<TInt, TStr>>)),
     TDict(TStr, TInt), TDict(TInt, TStr), TDict(TInt, TList(TInt)),
     TOptional(TDict(TInt, TInt)),
     TJson(TList(TInt)), TJson(TOptional(TInt))}

\* the validators a class registers for the field, in declaration order
ClassValidators ==
    {<<>>}
    \cup {<<Validator(f, pre, whole, FALSE)>> :
              f \in UserFuncs, pre \in BOOLEAN, whole \in BOOLEAN}
    \cup {<<Validator("inc", FALSE, FALSE, TRUE)>>,
          <<Validator("inc", TRUE, FALSE, FALSE), Validator("lookup", TRUE, FALSE, FALSE)>>,
          <<Validator("lookup", FALSE, FALSE, FALSE), Validator("inc", TRUE, FALSE, FALSE)>>,
          <<Validator("inc", FALSE, FALSE, FALSE), Validator("nonempty", FALSE, FALSE, FALSE)>>,
          <<Validator("lookup", FALSE, TRUE, FALSE), Validator("nonempty", TRUE, TRUE, FALSE)>>,
          <<Validator("nonempty", FALSE, TRUE, FALSE), Validator("inc", TRUE, FALSE, FALSE)>>}

\* a declaration: what Field.infer passes to Field.__init__
Declarations ==
    [type_ : DeclaredTypes,
     class_validators : ClassValidators,
     default : {VNone, VInt(1)},
     required : BOOLEAN]

\* the values inside the containers of the inputs
Atoms == {VNone, VInt(1), VStr("a")}
Elements == Atoms \cup {VList(<<VInt(1), VStr("a")>>)}
DictKeys == {VInt(1), VStr("a")}

\* the sequences over S of length at most n
SeqUpTo(S, n) == UNION {[1..m -> S] : m \in 0..n}

\* the dicts of the inputs: at most MaxLen entries, the keys distinct
Dicts ==
    {VDict(ps) : ps \in {qs \in SeqUpTo({VPair(k, x) : k \in DictKeys, x \in Elements \ {VNone}},
                                         MaxLen) :
                           \A i, j \in 1..Len(qs) :
                               qs[i].items[1] = qs[j].items[1] => i = j}}

\* the dicts of one entry whose key is None
NoneKeyDicts == {VDict(<<VPair(VNone, x)>>) : x \in Elements \ {VNone}}

\* the raw values handed to Field.validate
Inputs ==
    Atoms
    \cup {VList(xs) : xs \in SeqUpTo(Elements, MaxLen)}
    \cup Dicts
    \cup NoneKeyDicts
    \cup {VStr(x) : x \in {"[1]", "[1, \"a\"]", "null"}}

(***************************************************************************)
(* The state: the declaration of a field, the descriptor built from it,    *)
(* and the last call of Field.validate: its input v and what it produced.  *)
(***************************************************************************)
VARIABLES pc, decl, field, v, ret
vars == <<pc, decl, field, v, ret>>

\* the location the model class passes: the field's alias
Loc == <<VStr("f")>>

Init ==
    /\ pc = "declared"
    /\ decl \in {d \in Declarations : d.required => d.default = VNone}
    /\ field = <<>>
    /\ v = VNone
    /\ ret = Result(VNone, None, <<>>)

\* Field.infer: the descriptor is built, once
Build ==
    /\ pc = "declared"
    /\ field' = Field(decl.type_, decl.class_validators, decl.default, decl.required, FALSE)
    /\ pc' = "built"
    /\ UNCHANGED <<decl, v, ret>>

\* a call of Field.validate on the built descriptor
Validate(x) ==
    /\ pc = "built"
    /\ v' = x
    /\ ret' = validate(field, x, Loc, <<>>, <<>>)
    /\ pc' = "validated"
    /\ UNCHANGED <<decl, field>>

\* the caller takes the result; the descriptor, unchanged, serves the next call
Return ==
    /\ pc = "validated"
    /\ pc' = "built"
    /\ v' = VNone
    /\ ret' = Result(VNone, None, <<>>)
    /\ UNCHANGED <<decl, field>>

Next ==
    \/ Build
    \/ \E x \in Inputs : Validate(x)
    \/ Return

Spec == Init /\ [][Next]_vars

(***************************************************************************)
(* What the properties read: the log of the last call, the descriptor at a *)
(* path of the tree, the frames of the log.                                *)
(***************************************************************************)
Log == ret.log
Called == pc = "validated"
Returned == pc = "validated" /\ ret.raised = ""

\* the value-error vocabulary: ValueError and TypeError
Recognized(exc) == exc \in {"ValueError", "TypeError"}

IsPrefix(p, q) == Len(p) <= Len(q) /\ SubSeq(q, 1, Len(p)) = p

RECURSIVE FieldAt(_, _)
\* the descriptor at path below f
FieldAt(f, path) ==
    IF path = <<>> THEN f
    ELSE IF Head(path) = 0 THEN FieldAt(f.key_field[1], Tail(path))
         ELSE FieldAt(f.sub_fields[Head(path)], Tail(path))

\* the entry and the return of a call of validate that did nothing in between
EntryOf(path, x, loc) == Event("validate", path, "", "", x, loc, "")
ReturnOf(path, x, loc, exc) == Event("return", path, "", "", x, loc, exc)

(***************************************************************************)
(* C1.  A descriptor with allow_none set, called with None, returns        *)
(* (None, None) and executes no step: the call of the field returns the    *)
(* pair with nothing but its entry and its return in the log, and at every *)
(* depth of the tree the entry of such a call is followed at once by its   *)
(* return of None without errors (no JSON decode, no validator of any      *)
(* list, no dispatch, no call of a sub-field or of the key field).         *)
(***************************************************************************)
C1_NoneShortCircuit ==
    Called =>
        /\ (field.allow_none /\ v = VNone) =>
               ret = Result(VNone, None, <<EntryOf(<<>>, VNone, Loc),
                                           ReturnOf(<<>>, VNone, Loc, "")>>)
        /\ \A i \in 1..Len(Log) :
               (/\ Log[i].ev = "validate"
                /\ Log[i].v = VNone
                /\ FieldAt(field, Log[i].path).allow_none)
               => /\ i < Len(Log)
                  /\ Log[i + 1] = ReturnOf(Log[i].path, VNone, Log[i].loc, "")

\* a nullable mapping with a whole-pre validator and a key field was given None
C1_Witness ==
    /\ Called
    /\ field.allow_none
    /\ v = VNone
    /\ field.shape = "MAPPING"
    /\ field.whole_pre_validators # <<>>
    /\ field.whole_post_validators # <<>>

(***************************************************************************)
(* The value that reached the shape dispatch of the field's own call (the  *)
(* input, decoded and passed through the whole-pre validators), and the    *)
(* errors of a report without the identities of the exceptions.            *)
(***************************************************************************)
Dispatched == \E i \in 1..Len(Log) : Log[i].ev = "dispatch" /\ Log[i].path = <<>>
DispatchIndex == CHOOSE i \in 1..Len(Log) : Log[i].ev = "dispatch" /\ Log[i].path = <<>>
DispatchValue == Log[DispatchIndex].v

RECURSIVE StripIds(_)
StripIds(e) ==
    [e EXCEPT !.exc.id = 0, !.sub = [j \in 1..Len(e.sub) |-> StripIds(e.sub[j])]]

RECURSIVE Leaves(_)
\* the ErrorWrappers of a report
Leaves(e) ==
    IF e.w = "ErrorWrapper" THEN {e}
    ELSE UNION {Leaves(e.sub[j]) : j \in 1..Len(e.sub)}

\* the indices 1..n in ascending order that satisfy P
Indices(n, P(_)) == SelectSeq([j \in 1..n |-> j], P)

(***************************************************************************)
(* C2.  A LIST or SET field whose dispatch receives a list-like value of n *)
(* elements, k >= 1 of which fail when validated alone at (location,       *)
(* index): the call returns a list of exactly k entries, the j-th being    *)
(* the errors of the j-th failing element in ascending index order,        *)
(* located at (location, index) (an element that is a container reports    *)
(* its own positions below that); every element was validated; and the     *)
(* value returned is the value as it reached the dispatch, which is not    *)
(* the list or set of the n - k valid results.                             *)
(***************************************************************************)
C2_Element(j) ==
    _validate_singleton(field, DispatchValue.items[j], Append(Loc, VInt(j - 1)), <<>>, <<>>)
C2_Failing ==
    Indices(Len(DispatchValue.items), LAMBDA j : Truthy(C2_Element(j).errors))
C2_Valid ==
    LET ok == Indices(Len(DispatchValue.items), LAMBDA j : ~Truthy(C2_Element(j).errors))
    IN [j \in 1..Len(ok) |-> C2_Element(ok[j]).v]
C2_Case ==
    /\ Returned
    /\ field.shape \in {"LIST", "SET"}
    /\ Dispatched
    /\ list_like(DispatchValue)
    /\ C2_Failing # <<>>

C2_ListSetErrors ==
    C2_Case =>
        LET failing == C2_Failing
        IN /\ ret.errors.w = "list"
           /\ Len(ret.errors.sub) = Len(failing)
           /\ \A j \in 1..Len(failing) :
                  /\ j <= Len(ret.errors.sub)
                  /\ StripIds(ret.errors.sub[j]) = StripIds(C2_Element(failing[j]).errors)
                  /\ \A e \in Leaves(ret.errors.sub[j]) :
                         IsPrefix(Append(Loc, VInt(failing[j] - 1)), e.loc)
                  /\ ret.errors.sub[j].w = "ErrorWrapper"
                         => ret.errors.sub[j].loc = Append(Loc, VInt(failing[j] - 1))
           /\ \A i \in 1..Len(DispatchValue.items) :
                  \E m \in 1..Len(Log) : IsPrefix(Append(Loc, VInt(i - 1)), Log[m].loc)
           /\ ret.v = DispatchValue
           /\ ret.v \notin {VList(C2_Valid), VSet(C2_Valid)}

\* the first of several elements failed and a later one was valid
C2_Witness ==
    /\ C2_Case
    /\ Len(DispatchValue.items) = MaxLen
    /\ C2_Failing = <<1>>

(***************************************************************************)
(* C3.  A TUPLE field of m sub-fields whose dispatch receives a list-like  *)
(* value of n # m elements returns exactly one ErrorWrapper, of a          *)
(* TupleLengthError with actual_length n and expected_length m, located at *)
(* the field; the value comes back as it was, no sub-field's validate is   *)
(* entered, no whole-post validator is called: the dispatch is the last    *)
(* step of the call.                                                       *)
(***************************************************************************)
C3_Case ==
    /\ Called
    /\ field.shape = "TUPLE"
    /\ Dispatched
    /\ list_like(DispatchValue)
    /\ Len(DispatchValue.items) # Len(field.sub_fields)

C3_TupleArity ==
    C3_Case =>
        /\ ret.raised = ""
        /\ ret.errors = ErrorWrapper(TupleLengthError(Len(DispatchValue.items),
                                                      Len(field.sub_fields)), Loc)
        /\ ret.v = DispatchValue
        /\ \A i \in 1..Len(Log) :
               /\ Log[i].ev = "validate" => Log[i].path = <<>>
               /\ Log[i].kind # "whole_post"
               /\ Log[i].ev \in {"call", "json"} => i < DispatchIndex
        /\ Log[Len(Log)] = ReturnOf(<<>>, DispatchValue, Loc, "errors")

\* a tuple field with whole-post validators was given more elements than it has
\* sub-fields
C3_Witness ==
    /\ C3_Case
    /\ Len(DispatchValue.items) > Len(field.sub_fields)
    /\ field.whole_post_validators # <<>>

(***************************************************************************)
(* C4.  A singleton field with alternatives (sub_fields) tries them in     *)
(* declaration order, each with the field's own location.  When the s-th   *)
(* is the first to succeed, the alternatives entered are exactly the first *)
(* s, in order, and the dispatch yields the result of the s-th (the call   *)
(* returns it, the field's whole-post validators receiving it first if     *)
(* there are any): an input valid under the first two validates as the     *)
(* first.  When all fail, the call returns the input with the list of the  *)
(* errors of all alternatives in declaration order, located at the field's *)
(* location (an alternative that is a container reports its positions      *)
(* below it).                                                              *)
(***************************************************************************)
C4_Alt(i) == validate(field.sub_fields[i], DispatchValue, Loc, <<i>>, <<>>)
C4_Succeeds(i) == C4_Alt(i).raised = "" /\ ~Truthy(C4_Alt(i).errors)
C4_Fails(i) == C4_Alt(i).raised = "" /\ Truthy(C4_Alt(i).errors)
\* the alternatives entered by the field's call, in the order of their entries
C4_Entered ==
    LET es == SelectSeq(Log, LAMBDA e : e.ev = "validate" /\ Len(e.path) = 1)
    IN [j \in 1..Len(es) |-> es[j].path[1]]
C4_Case ==
    /\ Called
    /\ field.shape = "SINGLETON"
    /\ field.sub_fields # <<>>
    /\ Dispatched

C4_FirstMatchWins ==
    C4_Case =>
        /\ \A e \in {Log[m] : m \in 1..Len(Log)} :
               (e.ev = "validate" /\ Len(e.path) = 1)
               => e.loc = Loc /\ e.v = DispatchValue
        /\ \A s \in 1..Len(field.sub_fields) :
               (C4_Succeeds(s) /\ \A i \in 1..(s - 1) : C4_Fails(i))
               => /\ C4_Entered = [j \in 1..s |-> j]
                  /\ \E m \in 1..Len(Log) :
                         /\ Log[m] = ReturnOf(<<s>>, C4_Alt(s).v, Loc, "")
                         /\ \A m2 \in (m + 1)..Len(Log) : Log[m2].path = <<>>
                         /\ field.whole_post_validators # <<>>
                                => /\ Log[m + 1].kind = "whole_post"
                                   /\ Log[m + 1].v = C4_Alt(s).v
                  /\ field.whole_post_validators = <<>>
                         => /\ ret.raised = ""
                            /\ ret.v = C4_Alt(s).v
                            /\ ret.errors = None
        /\ (\A i \in 1..Len(field.sub_fields) : C4_Fails(i))
               => /\ C4_Entered = [j \in 1..Len(field.sub_fields) |-> j]
                  /\ ret.raised = ""
                  /\ ret.v = DispatchValue
                  /\ ret.errors.w = "list"
                  /\ Len(ret.errors.sub) = Len(field.sub_fields)
                  /\ \A i \in 1..Len(field.sub_fields) :
                         /\ i <= Len(ret.errors.sub)
                         /\ StripIds(ret.errors.sub[i]) = StripIds(C4_Alt(i).errors)
                         /\ \A e \in Leaves(ret.errors.sub[i]) : IsPrefix(Loc, e.loc)
                         /\ ret.errors.sub[i].w = "ErrorWrapper"
                                => ret.errors.sub[i].loc = Loc

\* the input is valid under the first two alternatives, with different results,
\* and the call returned the first
C4_Witness ==
    /\ C4_Case
    /\ Len(field.sub_fields) >= 2
    /\ C4_Succeeds(1)
    /\ C4_Succeeds(2)
    /\ C4_Alt(1).v # C4_Alt(2).v
    /\ ret.raised = ""
    /\ ret.v = C4_Alt(1).v

(***************************************************************************)
(* C5.  A MAPPING field whose dispatch receives a dict with at least one   *)
(* entry that fails (its key under the key field at (location, "__key__"), *)
(* or else its value at (location, key)).                                  *)
(***************************************************************************)
C5_Key(j) ==
    validate(field.key_field[1], DispatchValue.items[j].items[1],
             Append(Loc, VStr("__key__")), <<0>>, <<>>)
C5_Value(j) ==
    _validate_singleton(field, DispatchValue.items[j].items[2],
                        Append(Loc, DispatchValue.items[j].items[1]), <<>>, <<>>)
C5_EntryFails(j) == Truthy(C5_Key(j).errors) \/ Truthy(C5_Value(j).errors)
C5_EntryErrors(j) ==
    IF Truthy(C5_Key(j).errors) THEN C5_Key(j).errors ELSE C5_Value(j).errors
C5_Failed == Indices(Len(DispatchValue.items), C5_EntryFails)

RECURSIVE C5_KeptUpTo(_)
\* the validated entries among the first n, as a dict
C5_KeptUpTo(n) ==
    IF n = 0 THEN <<>>
    ELSE IF C5_EntryFails(n) THEN C5_KeptUpTo(n - 1)
         ELSE DictSet(C5_KeptUpTo(n - 1), C5_Key(n).v, C5_Value(n).v)
C5_Kept == VDict(C5_KeptUpTo(Len(DispatchValue.items)))

C5_Mapping ==
    /\ Returned
    /\ field.shape = "MAPPING"
    /\ Dispatched
    /\ DispatchValue.t = "dict"
C5_Case == C5_Mapping /\ C5_Failed # <<>>

\* C5 as claimed: the field is in error and the value returned with the errors
\* is the dict of exactly the entries whose key and value both validated
C5_PartialResultReturned ==
    C5_Case => Truthy(ret.errors) /\ ret.v = C5_Kept

\* C5 as amended: the field is in error, with one entry of the report per failed
\* entry in iteration order, and the value returned with the errors is the
\* mapping as it reached the dispatch, the failed entries included; the dict of
\* the validated entries is what the dispatch yields only when no entry failed
C5_InputReturnedWithErrors ==
    /\ C5_Case =>
           /\ ret.errors.w = "list"
           /\ Len(ret.errors.sub) = Len(C5_Failed)
           /\ \A j \in 1..Len(C5_Failed) :
                  /\ j <= Len(ret.errors.sub)
                  /\ StripIds(ret.errors.sub[j]) = StripIds(C5_EntryErrors(C5_Failed[j]))
           /\ ret.v = DispatchValue
           /\ ret.v # C5_Kept
    /\ (C5_Mapping /\ C5_Failed = <<>> /\ field.whole_post_validators = <<>>) =>
           ret.v = C5_Kept /\ ret.errors = None

\* one entry failed, another validated, and the call returned
C5_Witness ==
    /\ C5_Case
    /\ Len(DispatchValue.items) = MaxLen
    /\ Len(C5_Failed) = 1
    /\ C5_Kept.items # <<>>

(***************************************************************************)
(* The frames of the log: a call of validate, from its entry to its return *)
(* (or to the end of the log when an exception left it), and the steps of  *)
(* that frame itself, which carry its path.                                *)
(***************************************************************************)
Frames == {i \in 1..Len(Log) : Log[i].ev = "validate"}
FrameReturns(i) ==
    {j \in (i + 1)..Len(Log) : Log[j].ev = "return" /\ Log[j].path = Log[i].path}
FrameEnd(i) ==
    IF FrameReturns(i) = {} THEN Len(Log)
    ELSE CHOOSE j \in FrameReturns(i) : \A j2 \in FrameReturns(i) : j <= j2
Own(i) == {k \in i..FrameEnd(i) : Log[k].path = Log[i].path}
OwnOf(i, kind) == {k \in Own(i) : Log[k].kind = kind}
FrameDispatch(i) == {k \in Own(i) : Log[k].ev = "dispatch"}
\* what the shape dispatch of the frame yields, from the value it received
DispatchOf(d) ==
    dispatch(FieldAt(field, Log[d].path), Log[d].v, Log[d].loc, Log[d].path, <<>>)

(***************************************************************************)
(* C6.  In every call of validate, at every depth: the whole-pre           *)
(* validators of the call run before its dispatch, with nothing but the    *)
(* JSON decode before them, and one that fails ends the call at once, no   *)
(* element validated; the whole-post validators of the call run only after *)
(* its dispatch has returned without errors, nothing but whole-post steps  *)
(* follows the first of them, and the first receives the assembled result  *)
(* of the dispatch (a set for SET, a tuple for TUPLE, every element in     *)
(* it); a whole-post validator that fails puts the call in error at its    *)
(* location; and when the dispatch returns errors no whole-post validator  *)
(* of the call is invoked.                                                 *)
(***************************************************************************)
C6_Assembled(self, x, r) ==
    CASE self.shape = "SET" -> r.t = "set"
      [] self.shape = "TUPLE" -> r.t = "tuple" /\ Len(r.items) = Len(x.items)
      [] self.shape = "LIST" -> r.t = "list" /\ Len(r.items) = Len(x.items)
      [] self.shape = "MAPPING" -> r.t = "dict"
      [] OTHER -> TRUE

C6_Frame(i) ==
    LET self == FieldAt(field, Log[i].path)
        last == FrameEnd(i)
        posts == OwnOf(i, "whole_post")
    IN /\ \A k \in OwnOf(i, "whole_pre") :
              /\ \A m \in (i + 1)..(k - 1) :
                     Log[m].path = Log[i].path /\ (Log[m].ev = "json" \/ Log[m].kind = "whole_pre")
              /\ \A d \in FrameDispatch(i) : k < d
              /\ Log[k].exc # "" =>
                     /\ FrameDispatch(i) = {}
                     /\ last \in {k, k + 1}
                     /\ Recognized(Log[k].exc) =>
                            Log[k + 1] = ReturnOf(Log[i].path, Log[k].v, Log[i].loc, "errors")
       /\ \A k \in posts :
              /\ \A m \in (k + 1)..last :
                     /\ Log[m].path = Log[i].path
                     /\ Log[m].kind = "whole_post" \/ Log[m].ev = "return"
              /\ \E d \in FrameDispatch(i) : d < k
              /\ Recognized(Log[k].exc) =>
                     Log[k + 1] = ReturnOf(Log[i].path, Log[k].v, Log[i].loc, "errors")
       /\ self.whole_post_validators = <<>> => posts = {}
       /\ self.whole_post_validators # <<>> =>
              \A d \in FrameDispatch(i) :
                  LET D == DispatchOf(d)
                  IN /\ Truthy(D.errors) => posts = {}
                     /\ (D.raised = "" /\ ~Truthy(D.errors)) => posts # {}
                     /\ \A k \in posts :
                            /\ D.raised = ""
                            /\ ~Truthy(D.errors)
                            /\ C6_Assembled(self, Log[d].v, D.v)
                            /\ (\A k2 \in posts : k <= k2) => Log[k].v = D.v

C6_WholeOrder ==
    Called =>
        /\ \A i \in Frames : C6_Frame(i)
        /\ \A k \in 1..Len(Log) :
               (/\ Log[k].path = <<>>
                /\ Log[k].kind \in {"whole_pre", "whole_post"}
                /\ Recognized(Log[k].exc))
               => /\ ret.raised = ""
                  /\ ret.errors = ErrorWrapper(Exc(Log[k].exc, k), Loc)

\* a list of elements that are all valid was rejected by a whole-post validator
C6_Witness ==
    /\ Returned
    /\ field.shape = "LIST"
    /\ Dispatched
    /\ list_like(DispatchValue)
    /\ Len(DispatchValue.items) = MaxLen
    /\ C2_Failing = <<>>
    /\ \E k \in 1..Len(Log) :
           /\ Log[k].path = <<>>
           /\ Log[k].kind = "whole_post"
           /\ Log[k].v = VList(C2_Valid)
           /\ ret.errors = ErrorWrapper(Exc(Log[k].exc, k), Loc)

(***************************************************************************)
(* C7.  A validator marked whole is invoked only by the field it is        *)
(* registered on, as a whole-pre or whole-post step on the value of that   *)
(* field: never by a sub-field (a tuple position, a mapping key, an        *)
(* alternative, the element of a nested container) on its element.         *)
(***************************************************************************)
WholeFuncs ==
    {decl.class_validators[i].func :
         i \in {j \in 1..Len(decl.class_validators) : decl.class_validators[j].whole}}

C7_WholeOnlyOnField ==
    Called =>
        \A k \in 1..Len(Log) :
            (Log[k].ev = "call" /\ Log[k].f \in WholeFuncs)
            => Log[k].path = <<>> /\ Log[k].kind \in {"whole_pre", "whole_post"}

(***************************************************************************)
(* C8.  The element pipeline of every descriptor without sub-fields is the *)
(* pre-validators not marked whole in declaration order, then the built-in *)
(* chain of its type, then the post-validators not marked whole in         *)
(* declaration order, not_none_validator left out when allow_none is set.  *)
(* Every run of a pipeline calls its steps in that order from the first,   *)
(* each with what the step before returned; a step that returns is         *)
(* followed by the next, a step that raises is the last of the run; and in *)
(* a descriptor that is a plain singleton a step that raises ValueError or *)
(* TypeError makes the call return at once the value that step received    *)
(* with one ErrorWrapper at the location of the call.                      *)
(***************************************************************************)
RECURSIVE Descriptors(_)
\* the descriptors of the tree of f
Descriptors(f) ==
    {f} \cup UNION {Descriptors(f.sub_fields[i]) : i \in 1..Len(f.sub_fields)}
        \cup UNION {Descriptors(f.key_field[i]) : i \in 1..Len(f.key_field)}

C8_Pipeline(d) ==
    LET cv == d.class_validators
        pre == Indices(Len(cv), LAMBDA i : cv[i].pre /\ ~cv[i].whole)
        post == Indices(Len(cv), LAMBDA i : ~cv[i].pre /\ ~cv[i].whole)
        chain == SelectSeq(find_validators(d.type_),
                           LAMBDA f : ~(d.allow_none /\ f = "not_none_validator"))
    IN [j \in 1..(Len(pre) + Len(chain) + Len(post)) |->
            IF j <= Len(pre) THEN cv[pre[j]].func
            ELSE IF j <= Len(pre) + Len(chain) THEN chain[j - Len(pre)]
                 ELSE cv[post[j - Len(pre) - Len(chain)]].func]

\* steps k and m belong to the same run of a pipeline
C8_SameRun(k, m) ==
    /\ Log[k].kind = "validators"
    /\ Log[m].kind = "validators"
    /\ Log[k].path = Log[m].path
    /\ Log[k].loc = Log[m].loc
\* the position in its run of step k
C8_Pos(k) ==
    k + 1 - (CHOOSE s \in 1..k :
                 /\ \A m \in s..k : C8_SameRun(m, k)
                 /\ s > 1 => ~C8_SameRun(s - 1, k))

C8_Step(k) ==
    LET d == FieldAt(field, Log[k].path)
        pos == C8_Pos(k)
        plain == d.shape = "SINGLETON"
    IN /\ pos <= Len(d.validators)
       /\ Log[k].f = d.validators[pos]
       /\ Log[k].exc = Call(Log[k].f, Log[k].v).exc
       /\ pos > 1 =>
              /\ Log[k - 1].exc = ""
              /\ Log[k].v = Call(Log[k - 1].f, Log[k - 1].v).v
       /\ (pos = 1 /\ plain) =>
              Log[k - 1] = Event("dispatch", Log[k].path, "SINGLETON", "", Log[k].v,
                                 Log[k].loc, "")
       /\ (Log[k].exc = "" /\ pos < Len(d.validators)) =>
              k < Len(Log) /\ C8_SameRun(k, k + 1)
       /\ Log[k].exc # "" =>
              /\ k < Len(Log) => ~C8_SameRun(k, k + 1)
              /\ ~Recognized(Log[k].exc) => k = Len(Log) /\ ret.raised = Log[k].exc
              /\ (Recognized(Log[k].exc) /\ plain) =>
                     /\ k < Len(Log)
                     /\ Log[k + 1] = ReturnOf(Log[k].path, Log[k].v, Log[k].loc, "errors")
                     /\ Log[k].path = <<>> =>
                            /\ ret.raised = ""
                            /\ ret.v = Log[k].v
                            /\ ret.errors = ErrorWrapper(Exc(Log[k].exc, k), Loc)

C8_ElementPipeline ==
    /\ pc # "declared" =>
           \A d \in Descriptors(field) :
               IF d.sub_fields = <<>> THEN d.validators = C8_Pipeline(d)
               ELSE d.validators = <<>>
    /\ Called =>
           \A k \in 1..Len(Log) : Log[k].kind = "validators" => C8_Step(k)

\* a plain singleton with a pipeline of four steps: the second transformed the
\* value, the third received the result and raised, the fourth did not run
C8_Witness ==
    /\ Returned
    /\ field.shape = "SINGLETON"
    /\ field.sub_fields = <<>>
    /\ Len(field.validators) = 4
    /\ \E k \in 1..Len(Log) :
           /\ Log[k].kind = "validators"
           /\ C8_Pos(k) = 3
           /\ Log[k].v # Log[k - 1].v
           /\ Recognized(Log[k].exc)
           /\ ret.errors = ErrorWrapper(Exc(Log[k].exc, k), Loc)

(***************************************************************************)
(* C9.  The two outcomes of a failing step (a validator of any list, or    *)
(* the JSON decode, at any depth).                                         *)
(***************************************************************************)
Steps == {k \in 1..Len(Log) : Log[k].ev \in {"call", "json"}}
\* the error of step k is in the report the call returned, with a location
C9_Reported(k) ==
    \E e \in Leaves(ret.errors) :
        e.exc.id = k /\ e.exc.cls = Log[k].exc /\ e.loc # <<>>
\* step k ran inside an alternative of a descriptor of which, in the same call,
\* a later alternative succeeded
C9_Discarded(k) ==
    \E r \in (k + 1)..Len(Log) :
        /\ Log[r].ev = "return"
        /\ Log[r].exc = ""
        /\ Len(Log[r].path) >= 1
        /\ LET p == SubSeq(Log[r].path, 1, Len(Log[r].path) - 1)
               j == Log[r].path[Len(Log[r].path)]
           IN /\ j >= 2
              /\ FieldAt(field, p).shape # "TUPLE"
              /\ \E i \in 1..(j - 1) : IsPrefix(Append(p, i), Log[k].path)
              /\ \A m \in k..r : ~(Log[m].ev = "validate" /\ Log[m].path = p)
\* an exception outside the vocabulary leaves the call at the step that raised it
C9_DefectsPropagate ==
    /\ \A k \in Steps :
           (Log[k].exc # "" /\ ~Recognized(Log[k].exc))
           => k = Len(Log) /\ ret = Raised(Log[k].exc, Log)
    /\ ret.raised # "" =>
           /\ ~Recognized(ret.raised)
           /\ Len(Log) \in Steps
           /\ Log[Len(Log)].exc = ret.raised
    /\ \A e \in Leaves(ret.errors) :
           e.exc.id # 0 => e.exc.id \in Steps /\ Recognized(Log[e.exc.id].exc)

\* C9 as claimed: a ValueError or TypeError of a step never leaves validate and
\* is always in the report returned; any other exception leaves validate
C9_AlwaysReported ==
    Called =>
        /\ \A k \in Steps :
               (Recognized(Log[k].exc) /\ ret.raised = "") => C9_Reported(k)
        /\ C9_DefectsPropagate

\* C9 as amended: the ValueError or TypeError is in the report returned unless
\* first-match-wins discarded it: it was raised inside an alternative and a later
\* alternative of the same call succeeded
C9_ReportedOrDiscarded ==
    Called =>
        /\ \A k \in Steps :
               (Recognized(Log[k].exc) /\ ret.raised = "")
               => (C9_Reported(k) <=> ~C9_Discarded(k))
        /\ C9_DefectsPropagate

\* of two failing steps of a call that returned, inside an element of a
\* container, one is reported and one discarded
C9_Witness ==
    /\ Returned
    /\ \E k \in Steps :
           Recognized(Log[k].exc) /\ C9_Reported(k) /\ Len(Log[k].loc) >= 2
    /\ \E k \in Steps :
           Recognized(Log[k].exc) /\ C9_Discarded(k) /\ Len(Log[k].loc) >= 2

(***************************************************************************)
(* C10.  After shape resolution every descriptor of the tree that is a     *)
(* singleton with alternatives has at least two sub-fields, and a type     *)
(* Union[T, None] resolves to the descriptor of T itself with allow_none   *)
(* set.                                                                    *)
(***************************************************************************)
C10_AtLeastTwoAlternatives ==
    pc # "declared" =>
        /\ \A d \in Descriptors(field) :
               (d.shape = "SINGLETON" /\ d.sub_fields # <<>>) => Len(d.sub_fields) >= 2
        /\ (decl.type_.k = "Union" /\ Len(decl.type_.args) = 2
                /\ decl.type_.args[2] = NoneType)
               => /\ field.allow_none
                  /\ field.type_ = decl.type_.args[1]

(***************************************************************************)
(* C11.  Every sub-descriptor of the tree (tuple position, alternative,    *)
(* key field, nested-element sub-field) carries the default, required and  *)
(* allow_none of its parent as they stood when it was created, which is as *)
(* they stand once the parent is built; only a None alternative of the     *)
(* sub-descriptor's own type changes them.  Hence in every call, None      *)
(* handed to a sub-descriptor of a parent with allow_none set returns at   *)
(* once as (None, no errors).                                              *)
(***************************************************************************)
\* the descriptors d owns
C11_Subs(d) ==
    {d.sub_fields[i] : i \in 1..Len(d.sub_fields)}
        \cup {d.key_field[i] : i \in 1..Len(d.key_field)}
\* s is itself a Union with a None alternative
C11_OwnNone(s) ==
    /\ s.shape = "SINGLETON"
    /\ s.type_.k = "Union"
    /\ \E i \in 1..Len(s.type_.args) : s.type_.args[i] = NoneType
C11_Parent(path) == FieldAt(field, SubSeq(path, 1, Len(path) - 1))

C11_SubFieldsInherit ==
    /\ pc # "declared" =>
           \A d \in Descriptors(field) : \A s \in C11_Subs(d) :
               /\ s.default = d.default
               /\ s.required = (d.required /\ ~C11_OwnNone(s))
               /\ s.allow_none = (d.allow_none \/ C11_OwnNone(s))
    /\ Called =>
           \A i \in 1..Len(Log) :
               (/\ Log[i].ev = "validate"
                /\ Log[i].path # <<>>
                /\ Log[i].v = VNone
                /\ C11_Parent(Log[i].path).allow_none)
               => /\ i < Len(Log)
                  /\ Log[i + 1] = ReturnOf(Log[i].path, VNone, Log[i].loc, "")

\* None handed to a sub-descriptor of the given place (0 the key field, 1 a
\* sub-field) of a parent of the given shape that has allow_none set
C11_NoneAt(shape, place) ==
    \E i \in 1..Len(Log) :
        /\ Log[i].ev = "validate"
        /\ Log[i].path # <<>>
        /\ Log[i].v = VNone
        /\ (Log[i].path[Len(Log[i].path)] = 0) = (place = 0)
        /\ C11_Parent(Log[i].path).allow_none
        /\ C11_Parent(Log[i].path).shape = shape

\* a mapping with allow_none set, and validators that keep its sub-descriptors
\* from setting allow_none themselves, took an entry of key None without errors
C11_Witness ==
    /\ Returned
    /\ ~Truthy(ret.errors)
    /\ field.validate_always
    /\ C11_NoneAt("MAPPING", 0)
=============================================================================
